---- MODULE Spec2Model ----
(***************************************************************************)
(* Model of Validator.py: a library of static predicates.  A behaviour is  *)
(* a caller holding two argument objects (value, param) and calling        *)
(* predicates on them one after the other.  Every predicate is modelled by *)
(* an operator that computes its outcome the way the Python code does: a   *)
(* returned object or a raised exception.                                  *)
(*                                                                         *)
(* Python values are tagged records:                                       *)
(*   [kind |-> "str",   s |-> <<chars>>]    str                            *)
(*   [kind |-> "int",   n |-> n]            int                            *)
(*   [kind |-> "bigint"]                    an int larger than any float   *)
(*   [kind |-> "float", tenths |-> n]       the float n/10                 *)
(*   [kind |-> "inf"], [kind |-> "nan"]     float('inf'), float('nan')     *)
(*   [kind |-> "none"]                      None                           *)
(*   [kind |-> "list",  items |-> <<...>>]  list                           *)
(*   [kind |-> "tuple", items |-> <<...>>]  tuple                          *)
(* A character is a one-character string, except for two non-ASCII         *)
(* characters that are written by their code point:                        *)
(*   "U+0663"  ARABIC-INDIC DIGIT THREE (category Nd, int('..') = 3)       *)
(*   "U+00B2"  SUPERSCRIPT TWO (str.isdigit() is True, int('..') raises)   *)
(***************************************************************************)
EXTENDS Integers, Sequences, FiniteSets, TLC

VARIABLES value, param, called, result

vars == <<value, param, called, result>>

-----------------------------------------------------------------------------
(* Python objects and outcomes *)

PyStr(s) == [kind |-> "str", s |-> s]
PyInt(n) == [kind |-> "int", n |-> n]
PyFloat(t) == [kind |-> "float", tenths |-> t]
PyList(items) == [kind |-> "list", items |-> items]
PyTuple(items) == [kind |-> "tuple", items |-> items]
PyNone == [kind |-> "none"]
PyInf == [kind |-> "inf"]
PyNaN == [kind |-> "nan"]
PyBigInt == [kind |-> "bigint"]

\* the second argument of a call that passes only one
Absent == [kind |-> "absent"]

Return(v) == [kind |-> "return", v |-> v]
Raise(e) == [kind |-> "raise", v |-> e]
PyBool(b) == Return(IF b THEN "True" ELSE "False")
NoCall == [kind |-> "nocall", v |-> ""]

-----------------------------------------------------------------------------
(* Character classes of str methods and of the re module (str patterns) *)

AsciiDigits == {"0", "1", "2", "3", "4", "5", "6", "7", "8", "9"}
NonZeroDigits == AsciiDigits \ {"0"}
\* \d in a str pattern: every Unicode decimal digit
DecimalDigits == AsciiDigits \cup {"U+0663"}
\* str.isdigit(): decimal digits and digit-like characters such as superscripts
IsDigitChars == DecimalDigits \cup {"U+00B2"}
\* \s in a str pattern, and what str.strip() removes
Whitespace == {" ", "\t", "\n"}
LowerHex == {"a", "b", "c", "d", "e", "f"}
UpperHex == {"A", "B", "C", "D", "E", "F"}
LowerSeq == <<"a", "b", "c", "d", "e", "f", "g", "h", "i", "j", "k", "l", "m",
              "n", "o", "p", "q", "r", "s", "t", "u", "v", "w", "x", "y", "z">>
UpperSeq == <<"A", "B", "C", "D", "E", "F", "G", "H", "I", "J", "K", "L", "M",
              "N", "O", "P", "Q", "R", "S", "T", "U", "V", "W", "X", "Y", "Z">>
LowerLetters == {LowerSeq[i] : i \in 1..Len(LowerSeq)}
UpperLetters == {UpperSeq[i] : i \in 1..Len(UpperSeq)}
\* the symbols of is_strong_password's last character class
Punctuation == {"!", "@", "#", "$", "%", "^", "&", "*", "(", ")", ",", ".", "?",
                "\"", ":", "{", "}", "|", "<", ">"}

DigitValue(c) ==
    CASE c = "0" -> 0 [] c = "1" -> 1 [] c = "2" -> 2 [] c = "3" -> 3
      [] c = "4" -> 4 [] c = "5" -> 5 [] c = "6" -> 6 [] c = "7" -> 7
      [] c = "8" -> 8 [] c = "9" -> 9 [] c = "U+0663" -> 3

DigitChar(n) == CHOOSE c \in AsciiDigits : DigitValue(c) = n

\* str.lower() of one character
LowerChar(c) ==
    IF c \in UpperLetters
    THEN LowerSeq[CHOOSE i \in 1..Len(UpperSeq) : UpperSeq[i] = c]
    ELSE c

lower(s) == [i \in 1..Len(s) |-> LowerChar(s[i])]

\* re.sub(r'[...]', '', s): s without the characters of the class
RECURSIVE re_sub_remove(_, _)
re_sub_remove(cls, s) ==
    IF s = <<>> THEN <<>>
    ELSE IF Head(s) \in cls THEN re_sub_remove(cls, Tail(s))
    ELSE <<Head(s)>> \o re_sub_remove(cls, Tail(s))

\* bool(re.search(r'[...]', s)): some character of s is in the class
re_search(cls, s) == \E i \in 1..Len(s) : s[i] \in cls

\* A pattern is a sequence of items [cls, lo, hi]: between lo and hi
\* characters of cls (greedy, with backtracking).  MatchEnds is the set of
\* positions at which a match of items k.. that starts at pos can end.
Item(cls, lo, hi) == [cls |-> cls, lo |-> lo, hi |-> hi]

RECURSIVE RunLength(_, _, _, _)
RunLength(cls, s, pos, hi) ==
    IF hi = 0 \/ pos > Len(s) \/ s[pos] \notin cls THEN 0
    ELSE 1 + RunLength(cls, s, pos + 1, hi - 1)

RECURSIVE MatchEnds(_, _, _, _)
MatchEnds(pat, k, s, pos) ==
    IF k > Len(pat) THEN {pos}
    ELSE LET run == RunLength(pat[k].cls, s, pos, pat[k].hi)
         IN  UNION {MatchEnds(pat, k + 1, s, pos + n) : n \in pat[k].lo..run}

\* '$' without re.MULTILINE: at the end, or just before a newline that ends s
AtDollar(s, pos) == pos = Len(s) + 1 \/ (pos = Len(s) /\ s[pos] = "\n")

\* bool(re.match('^' pat '$', s))
re_match_dollar(pat, s) == \E e \in MatchEnds(pat, 1, s, 1) : AtDollar(s, e)

-----------------------------------------------------------------------------
(* str(value) *)

RECURSIVE NatDigits(_)
NatDigits(n) ==
    IF n < 10 THEN <<DigitChar(n)>> ELSE NatDigits(n \div 10) \o <<DigitChar(n % 10)>>

IntDigits(n) == IF n < 0 THEN <<"-">> \o NatDigits(-n) ELSE NatDigits(n)

Abs(n) == IF n < 0 THEN -n ELSE n

StrKinds == {"str", "int", "float", "inf", "nan", "none"}

str(v) ==
    CASE v.kind = "str" -> v.s
      [] v.kind = "int" -> IntDigits(v.n)
      [] v.kind = "float" ->
            (IF v.tenths < 0 THEN <<"-">> ELSE <<>>)
            \o NatDigits(Abs(v.tenths) \div 10) \o <<".">> \o NatDigits(Abs(v.tenths) % 10)
      [] v.kind = "inf" -> <<"i", "n", "f">>
      [] v.kind = "nan" -> <<"n", "a", "n">>
      [] v.kind = "none" -> <<"N", "o", "n", "e">>

-----------------------------------------------------------------------------
(* int(x) and float(x), and _can_convert *)

\* s.strip()
RECURSIVE lstrip(_)
lstrip(s) == IF s # <<>> /\ Head(s) \in Whitespace THEN lstrip(Tail(s)) ELSE s

RECURSIVE rstrip(_)
rstrip(s) ==
    IF s # <<>> /\ s[Len(s)] \in Whitespace THEN rstrip(SubSeq(s, 1, Len(s) - 1)) ELSE s

strip(s) == rstrip(lstrip(s))

Signs == {"+", "-"}

\* digitpart ::= digit (["_"] digit)*, read from position i in state st
\* ("start": nothing read, "digit": after a digit, "under": after "_");
\* the position after the longest digitpart, or 0 when there is none
RECURSIVE DigitPartEnd(_, _, _)
DigitPartEnd(s, i, st) ==
    IF i <= Len(s) /\ s[i] \in DecimalDigits THEN DigitPartEnd(s, i + 1, "digit")
    ELSE IF i <= Len(s) /\ s[i] = "_" /\ st = "digit" THEN DigitPartEnd(s, i + 1, "under")
    ELSE IF st = "digit" THEN i
    ELSE 0

SkipSign(s, i) == IF i <= Len(s) /\ s[i] \in Signs THEN i + 1 ELSE i

\* int(str): optional whitespace, optional sign, one digitpart, nothing else
IntLiteral(s) ==
    LET t == strip(s)
    IN  DigitPartEnd(t, SkipSign(t, 1), "start") = Len(t) + 1

\* the optional exponent of a float literal that starts at i; the position
\* after it, or 0 when what starts at i is not an exponent
ExponentEnd(s, i) ==
    IF i = Len(s) + 1 THEN i
    ELSE IF s[i] \in {"e", "E"} THEN DigitPartEnd(s, SkipSign(s, i + 1), "start")
    ELSE 0

\* float(str): [sign] (inf | infinity | nan), or
\* [sign] (digitpart ["." [digitpart]] | "." digitpart) [exponent]
FloatLiteral(s) ==
    LET t == strip(s)
        b == SkipSign(t, 1)
        word == lower(SubSeq(t, b, Len(t)))
        ip == DigitPartEnd(t, b, "start")
        afterPoint(i) == LET f == DigitPartEnd(t, i, "start") IN IF f = 0 THEN i ELSE f
        mantissaEnd ==
            IF ip # 0
            THEN IF ip <= Len(t) /\ t[ip] = "." THEN afterPoint(ip + 1) ELSE ip
            ELSE IF b <= Len(t) /\ t[b] = "." THEN DigitPartEnd(t, b + 1, "start")
            ELSE 0
    IN  \/ word \in {<<"i", "n", "f">>, <<"n", "a", "n">>,
                    <<"i", "n", "f", "i", "n", "i", "t", "y">>}
        \/ mantissaEnd # 0 /\ ExponentEnd(t, mantissaEnd) = Len(t) + 1

\* int(x) of the finite float tenths/10: the fraction is cut off, towards zero
IntOfFloat(tenths) == IF tenths < 0 THEN -((-tenths) \div 10) ELSE tenths \div 10

\* int(x): the returned type, or the exception raised
int(x) ==
    CASE x.kind \in {"int", "bigint", "float"} -> Return("int")
      [] x.kind = "inf" -> Raise("OverflowError")
      [] x.kind = "nan" -> Raise("ValueError")
      [] x.kind = "str" -> IF IntLiteral(x.s) THEN Return("int") ELSE Raise("ValueError")
      [] OTHER -> Raise("TypeError")

\* float(x)
float(x) ==
    CASE x.kind \in {"int", "float", "inf", "nan"} -> Return("float")
      [] x.kind = "bigint" -> Raise("OverflowError")
      [] x.kind = "str" -> IF FloatLiteral(x.s) THEN Return("float") ELSE Raise("ValueError")
      [] OTHER -> Raise("TypeError")

Convert(converter, x) == IF converter = "int" THEN int(x) ELSE float(x)

\* except (ValueError, TypeError)
CaughtByCanConvert == {"ValueError", "TypeError"}

_can_convert(v, converter) ==
    LET r == Convert(converter, v)
    IN  IF r.kind = "return" THEN PyBool(TRUE)
        ELSE IF r.v \in CaughtByCanConvert THEN PyBool(FALSE)
        ELSE r

is_integer(v) == _can_convert(v, "int")

is_float(v) == _can_convert(v, "float")

-----------------------------------------------------------------------------
(* is_phone, is_credit_card, is_strong_password, is_uuid *)

PhoneMaxMoreDigits == 15

\* the pattern with one more digit allowed: {0,16}
PhonePatternOneMore ==
    <<Item({"+"}, 0, 1), Item(NonZeroDigits, 1, 1),
      Item(DecimalDigits, 0, PhoneMaxMoreDigits + 1)>>

\* r'^[\+]?[1-9][\d]{0,15}$'
PhonePattern ==
    <<Item({"+"}, 0, 1), Item(NonZeroDigits, 1, 1), Item(DecimalDigits, 0, PhoneMaxMoreDigits)>>

\* [\s\-\(\)]
PhoneStripped == Whitespace \cup {"-", "(", ")"}

is_phone(v) ==
    LET clean == re_sub_remove(PhoneStripped, str(v))
    IN  PyBool(re_match_dollar(PhonePattern, clean))

MinCardLen == 13
MaxCardLen == 19

\* [\s\-]
CardStripped == Whitespace \cup {"-"}

\* str.isdigit()
isdigit(s) == s # <<>> /\ \A i \in 1..Len(s) : s[i] \in IsDigitChars

\* for i in range(len(digits) - 2, -1, -2): the loop from (1-based) index i
RECURSIVE LuhnLoop(_, _)
LuhnLoop(digits, i) ==
    IF i < 1 THEN digits
    ELSE LET doubled == digits[i] * 2
             adjusted == IF doubled > 9 THEN doubled - 9 ELSE doubled
         IN  LuhnLoop([digits EXCEPT ![i] = adjusted], i - 2)

RECURSIVE sum(_)
sum(xs) == IF xs = <<>> THEN 0 ELSE Head(xs) + sum(Tail(xs))

\* int(d) of one character raises ValueError unless d is a decimal digit
luhn_check(card_num) ==
    IF \E i \in 1..Len(card_num) : card_num[i] \notin DecimalDigits
    THEN Raise("ValueError")
    ELSE LET digits == [i \in 1..Len(card_num) |-> DigitValue(card_num[i])]
         IN  PyBool(sum(LuhnLoop(digits, Len(digits) - 1)) % 10 = 0)

is_credit_card(v) ==
    LET clean == re_sub_remove(CardStripped, str(v))
    IN  IF ~isdigit(clean) \/ Len(clean) < MinCardLen \/ Len(clean) > MaxCardLen
        THEN PyBool(FALSE)
        ELSE luhn_check(clean)

DefaultMinLen == 8

\* the object re.search returns
SearchObject(cls, s) == IF re_search(cls, s) THEN "Match" ELSE "None"

\* a and b and ...: the first falsy operand, or the last operand
RECURSIVE AndChain(_)
AndChain(operands) ==
    IF Len(operands) = 1 \/ Head(operands) \in {"False", "None"} THEN Head(operands)
    ELSE AndChain(Tail(operands))

\* len(s) >= min_len for an int, a float, or anything else
LenAtLeast(s, min_len) ==
    CASE min_len.kind = "int" -> PyBool(Len(s) >= min_len.n)
      [] min_len.kind = "float" -> PyBool(Len(s) * 10 >= min_len.tenths)
      [] min_len.kind = "bigint" -> PyBool(FALSE)
      [] min_len.kind = "inf" -> PyBool(FALSE)
      [] min_len.kind = "nan" -> PyBool(FALSE)
      [] OTHER -> Raise("TypeError")

is_strong_password(v, min_len) ==
    LET s == str(v)
        long == LenAtLeast(s, IF min_len = Absent THEN PyInt(DefaultMinLen) ELSE min_len)
    IN  IF long.kind = "raise" THEN long
        ELSE Return(AndChain(<<long.v,
                               SearchObject(UpperLetters, s),
                               SearchObject(LowerLetters, s),
                               SearchObject(DecimalDigits, s),
                               SearchObject(Punctuation, s)>>))

HexLower == AsciiDigits \cup LowerHex

\* r'^[0-9a-f]{8}-[0-9a-f]{4}-[1-5][0-9a-f]{3}-[89ab][0-9a-f]{3}-[0-9a-f]{12}$'
UuidPattern ==
    <<Item(HexLower, 8, 8), Item({"-"}, 1, 1), Item(HexLower, 4, 4), Item({"-"}, 1, 1),
      Item({"1", "2", "3", "4", "5"}, 1, 1), Item(HexLower, 3, 3), Item({"-"}, 1, 1),
      Item({"8", "9", "a", "b"}, 1, 1), Item(HexLower, 3, 3), Item({"-"}, 1, 1),
      Item(HexLower, 12, 12)>>

is_uuid(v) == PyBool(re_match_dollar(UuidPattern, lower(str(v))))

-----------------------------------------------------------------------------
(* has_extension and the list predicates *)

\* isinstance(x, str), isinstance(x, list)
IsStr(x) == x.kind = "str"
IsList(x) == x.kind = "list"

\* iter(x): the elements a for loop or a generator draws from x
Iterable(x) == x.kind \in {"list", "tuple", "str"}
Elements(x) == IF x.kind = "str" THEN [i \in 1..Len(x.s) |-> PyStr(<<x.s[i]>>)] ELSE x.items

\* a == b for the values of the model: an int equals the float of the same value
PyEq(a, b) ==
    \/ a = b
    \/ a.kind = "int" /\ b.kind = "float" /\ b.tenths = 10 * a.n
    \/ a.kind = "float" /\ b.kind = "int" /\ a.tenths = 10 * b.n

\* v in lst, for a list or tuple
Contains(lst, v) == \E i \in 1..Len(lst.items) : PyEq(lst.items[i], v)

\* s.endswith(suffix)
endswith(s, suffix) ==
    Len(suffix) <= Len(s) /\ SubSeq(s, Len(s) - Len(suffix) + 1, Len(s)) = suffix

\* has_extension without the isinstance test: a str is iterated by character
ExtensionCandidatesUnwrapped(extensions) == extensions

\* line 178-179: a str is wrapped in a new one-element list, bound to the local name
ExtensionCandidates(extensions) ==
    IF IsStr(extensions) THEN PyList(<<extensions>>) ELSE extensions

\* any(str(value).lower().endswith(f'.{ext.lower()}') for ext in exts), from ext i
RECURSIVE AnyExtension(_, _, _)
AnyExtension(s, exts, i) ==
    IF i > Len(exts) THEN PyBool(FALSE)
    ELSE IF ~IsStr(exts[i]) THEN Raise("AttributeError")
    ELSE IF endswith(lower(s), <<".">> \o lower(exts[i].s)) THEN PyBool(TRUE)
    ELSE AnyExtension(s, exts, i + 1)

has_extension(v, extensions) ==
    LET candidates == ExtensionCandidates(extensions)
    IN  IF ~Iterable(candidates) THEN Raise("TypeError")
        ELSE AnyExtension(str(v), Elements(candidates), 1)

\* has_extension lowering the entries of the caller's list in place
ExtensionsLoweredInPlace(extensions) ==
    IF extensions.kind = "list"
    THEN PyList([i \in 1..Len(extensions.items) |->
                    IF IsStr(extensions.items[i]) THEN PyStr(lower(extensions.items[i].s))
                    ELSE extensions.items[i]])
    ELSE extensions

\* the caller's extensions object after has_extension returns: line 179
\* rebinds the local name and writes to no object
ExtensionsAfterCall(extensions) == extensions

\* the caller's value after is_credit_card returns: luhn_check doubles the
\* entries of its own list `digits`, built from the new string `clean`
CardAfterCall(v) == v

\* all_in_list without the isinstance test: any container is searched
all_in_list_any_container(values, lst) ==
    IF ~Iterable(values) \/ ~Iterable(lst) THEN Raise("TypeError")
    ELSE PyBool(\A i \in 1..Len(Elements(values)) :
                   \E j \in 1..Len(Elements(lst)) : PyEq(Elements(lst)[j], Elements(values)[i]))

all_in_list(values, lst) ==
    IF ~IsList(lst) THEN PyBool(FALSE)
    ELSE IF ~Iterable(values) THEN Raise("TypeError")
    ELSE PyBool(\A i \in 1..Len(Elements(values)) : Contains(lst, Elements(values)[i]))

any_in_list(values, lst) ==
    IF ~IsList(lst) THEN PyBool(FALSE)
    ELSE IF ~Iterable(values) THEN Raise("TypeError")
    ELSE PyBool(\E i \in 1..Len(Elements(values)) : Contains(lst, Elements(values)[i]))

none_in_list(values, lst) ==
    IF ~IsList(lst) THEN PyBool(FALSE)
    ELSE IF ~Iterable(values) THEN Raise("TypeError")
    ELSE PyBool(~\E i \in 1..Len(Elements(values)) : Contains(lst, Elements(values)[i]))

-----------------------------------------------------------------------------
(* The argument values a caller passes *)

MaxCardInput == 21
MaxPhoneDigits == 18
MaxPasswordLen == 10
MaxListLen == 2

ReplaceAt(s, p, c) == [s EXCEPT ![p] = c]
InsertAfter(s, p, c) == SubSeq(s, 1, p) \o <<c>> \o SubSeq(s, p + 1, Len(s))
DeleteAt(s, p) == SubSeq(s, 1, p - 1) \o SubSeq(s, p + 1, Len(s))
Repeat(c, n) == [i \in 1..n |-> c]

\* "4532015112830366", continued cyclically
CardDigits == <<4, 5, 3, 2, 0, 1, 5, 1, 1, 2, 8, 3, 0, 3, 6, 6>>
CardPrefix(n) == [i \in 1..n |-> DigitChar(CardDigits[((i - 1) % Len(CardDigits)) + 1])]
Card16 == CardPrefix(Len(CardDigits))

CardStrings ==
    {ReplaceAt(CardPrefix(n), n, c) : n \in 11..MaxCardInput, c \in AsciiDigits}
    \cup {ReplaceAt(Card16, p, c) : p \in 1..Len(Card16),
                                    c \in {"0", "9", "U+0663", "U+00B2", "a"}}
    \cup {InsertAfter(Card16, p, c) : p \in 0..Len(Card16), c \in {" ", "-", "\n", "."}}
    \cup {Repeat("U+00B2", MinCardLen), Repeat("0", MinCardLen), <<"1", "2", "3">>, <<>>}

\* "123e4567-e89b-12d3-a456-426614174000"
Uuid36 ==
    <<"1", "2", "3", "e", "4", "5", "6", "7", "-", "e", "8", "9", "b", "-",
      "1", "2", "d", "3", "-", "a", "4", "5", "6", "-",
      "4", "2", "6", "6", "1", "4", "1", "7", "4", "0", "0", "0">>

UuidStrings ==
    {ReplaceAt(Uuid36, p, c) : p \in 1..Len(Uuid36),
                               c \in {"0", "5", "6", "8", "b", "c", "A", "g", "-", "\n"}}
    \cup {InsertAfter(Uuid36, p, c) : p \in {0, Len(Uuid36)}, c \in {"\n", " ", "a", "0"}}
    \cup {DeleteAt(Uuid36, p) : p \in 1..Len(Uuid36)}
    \cup {Uuid36 \o <<"\n", "\n">>, Uuid36 \o <<"\n", "a">>, Uuid36 \o Uuid36}

\* "+1 (555) 123-4567"
Phone17 ==
    <<"+", "1", " ", "(", "5", "5", "5", ")", " ", "1", "2", "3", "-", "4", "5", "6", "7">>

PhoneStrings ==
    {sign \o first \o Repeat(more, n) \o tail :
        sign \in {<<>>, <<"+">>}, first \in {<<"1">>, <<"9">>, <<"0">>, <<"U+0663">>, <<>>},
        more \in {"5", "0", "U+0663"}, n \in 0..(MaxPhoneDigits - 1),
        tail \in {<<>>, <<"\n">>}}
    \cup {InsertAfter(Phone17, p, c) : p \in 0..Len(Phone17),
                                      c \in {" ", "\n", "a", "+", "(", "U+00B2", "."}}

\* a string of length n that holds a character of each class of `classes`
PasswordOf(classes, digit, n) ==
    LET core == (IF "upper" \in classes THEN <<"A">> ELSE <<>>)
                \o (IF "lower" \in classes THEN <<"b">> ELSE <<>>)
                \o (IF "digit" \in classes THEN <<digit>> ELSE <<>>)
                \o (IF "symbol" \in classes THEN <<"!">> ELSE <<>>)
    IN  core \o Repeat("_", n - Len(core))

PasswordStrings ==
    {PasswordOf(cl, d, n) : cl \in SUBSET {"upper", "lower", "digit", "symbol"},
                            d \in {"1", "U+0663"}, n \in 5..MaxPasswordLen}

MinLens == {PyInt(4), PyInt(9), PyFloat(85), PyStr(<<"8">>), PyNone}

ConvertibleValues ==
    {PyInt(0), PyInt(42), PyInt(-7), PyBigInt, PyFloat(30), PyFloat(37), PyFloat(-5),
     PyInf, PyNaN, PyNone, PyList(<<>>), PyTuple(<<PyInt(1)>>)}
    \cup {PyStr(s) : s \in {<<"4", "2">>, <<" ", "4", "2", "\n">>, <<"-", "7">>, <<"+", "7">>,
                            <<"3", ".", "7">>, <<"3", ".">>, <<".", "5">>, <<".">>,
                            <<"1", "_", "0">>, <<"1", "_", "_", "0">>, <<"_", "1">>,
                            <<"1", "_">>, <<"4", " ", "2">>, <<"1", "e", "5">>,
                            <<"1", "E", "-", "5">>, <<"1", "e">>, <<"e", "5">>,
                            <<"1", ".", "e", "5">>, <<"1", "_", ".", "5">>,
                            <<"i", "n", "f">>, <<"-", "I", "n", "f">>, <<"n", "a", "n">>,
                            <<"i", "n", "f", "i", "n", "i", "t", "y">>, <<"i", "n">>,
                            <<"a", "b", "c">>, <<"U+0663">>, <<"U+00B2">>, <<"-">>,
                            <<"+", "-", "1">>, <<" ">>}}

UnaryValues ==
    {PyStr(s) : s \in CardStrings \cup UuidStrings \cup PhoneStrings \cup PasswordStrings}
    \cup ConvertibleValues

\* "report.PDF" and its neighbours
FileNames ==
    {<<"r", ".", "P", "D", "F">>, <<"r", ".", "p", "d", "f">>, <<"r", "p", "d", "f">>,
     <<".", "p", "d", "f">>, <<"p", "d", "f">>, <<"r", ".", "f">>, <<"r", ".">>,
     <<"r", ".", "p", "d", "f", ".", "D", "o", "c">>, <<"r", ".", "p", "d", "f", "x">>, <<>>}

ExtensionNames ==
    {PyStr(s) : s \in {<<"p", "d", "f">>, <<"P", "d", "F">>, <<"d", "o", "c">>, <<"f">>, <<>>}}

ExtensionItems == ExtensionNames \cup {PyInt(1)}

SeqsUpTo(S, n) == UNION {[1..k -> S] : k \in 0..n}

ExtensionArgs ==
    ExtensionNames
    \cup {PyList(xs) : xs \in SeqsUpTo(ExtensionItems, MaxListLen)}
    \cup {PyTuple(xs) : xs \in SeqsUpTo(ExtensionNames, MaxListLen)}
    \cup {PyInt(5), PyNone}

ListItems == {PyInt(1), PyInt(2), PyInt(9), PyFloat(20), PyStr(<<"1">>)}

ListValues ==
    {PyList(xs) : xs \in SeqsUpTo(ListItems, MaxListLen)}
    \cup {PyList(<<PyInt(9), PyInt(10)>>), PyTuple(<<PyInt(1), PyInt(2)>>), PyTuple(<<>>),
          PyStr(<<"1">>), PyStr(<<"1", "x">>), PyStr(<<>>), PyInt(1), PyNone}

ListArgs ==
    {PyList(xs) : xs \in SeqsUpTo(ListItems \ {PyInt(9)}, MaxListLen)}
    \cup {PyList(<<PyInt(1), PyInt(2), PyInt(3)>>)}
    \cup {PyTuple(xs) : xs \in SeqsUpTo({PyInt(1), PyInt(2)}, MaxListLen)}
    \cup {PyStr(<<"1">>), PyInt(1), PyNone}

Calls ==
    (UnaryValues \X {Absent})
    \cup ({PyStr(s) : s \in PasswordStrings} \X MinLens)
    \cup ({PyStr(s) : s \in FileNames} \X ExtensionArgs)
    \cup (ListValues \X ListArgs)

-----------------------------------------------------------------------------
(* The caller: two argument objects, and one action per predicate called *)

Init ==
    /\ \E c \in Calls : value = c[1] /\ param = c[2]
    /\ called = ""
    /\ result = NoCall

Call_is_integer ==
    /\ param = Absent
    /\ called' = "is_integer"
    /\ result' = is_integer(value)
    /\ UNCHANGED <<value, param>>

Call_is_float ==
    /\ param = Absent
    /\ called' = "is_float"
    /\ result' = is_float(value)
    /\ UNCHANGED <<value, param>>

Call_is_phone ==
    /\ param = Absent
    /\ value.kind \in StrKinds
    /\ called' = "is_phone"
    /\ result' = is_phone(value)
    /\ UNCHANGED <<value, param>>

Call_is_credit_card ==
    /\ param = Absent
    /\ value.kind \in StrKinds
    /\ called' = "is_credit_card"
    /\ result' = is_credit_card(value)
    /\ value' = CardAfterCall(value)
    /\ UNCHANGED param

Call_is_strong_password ==
    /\ value.kind \in StrKinds
    /\ called' = "is_strong_password"
    /\ result' = is_strong_password(value, param)
    /\ UNCHANGED <<value, param>>

Call_is_uuid ==
    /\ param = Absent
    /\ value.kind \in StrKinds
    /\ called' = "is_uuid"
    /\ result' = is_uuid(value)
    /\ UNCHANGED <<value, param>>

Call_has_extension ==
    /\ param # Absent
    /\ value.kind \in StrKinds
    /\ called' = "has_extension"
    /\ result' = has_extension(value, param)
    /\ param' = ExtensionsAfterCall(param)
    /\ UNCHANGED value

Call_all_in_list ==
    /\ param # Absent
    /\ called' = "all_in_list"
    /\ result' = all_in_list(value, param)
    /\ UNCHANGED <<value, param>>

Call_any_in_list ==
    /\ param # Absent
    /\ called' = "any_in_list"
    /\ result' = any_in_list(value, param)
    /\ UNCHANGED <<value, param>>

Call_none_in_list ==
    /\ param # Absent
    /\ called' = "none_in_list"
    /\ result' = none_in_list(value, param)
    /\ UNCHANGED <<value, param>>

Next ==
    \/ Call_is_integer
    \/ Call_is_float
    \/ Call_is_phone
    \/ Call_is_credit_card
    \/ Call_is_strong_password
    \/ Call_is_uuid
    \/ Call_has_extension
    \/ Call_all_in_list
    \/ Call_any_in_list
    \/ Call_none_in_list

Spec == Init /\ [][Next]_vars

-----------------------------------------------------------------------------
(* Properties *)

IsTrue == result = PyBool(TRUE)
IsFalse == result = PyBool(FALSE)

\* the digits of ds counted from the right: every second one, starting with
\* the second-to-last, is doubled and reduced by 9 when the double exceeds 9
LuhnTerm(d, fromRight) ==
    IF fromRight % 2 = 1 THEN d
    ELSE IF 2 * d > 9 THEN 2 * d - 9 ELSE 2 * d

RECURSIVE LuhnSum(_, _)
LuhnSum(s, fromRight) ==
    IF fromRight > Len(s) THEN 0
    ELSE LuhnTerm(DigitValue(s[Len(s) - fromRight + 1]), fromRight) + LuhnSum(s, fromRight + 1)

NotCardSeparator(c) == c \notin Whitespace \cup {"-"}

CardNumberValid(s) ==
    LET r == SelectSeq(s, NotCardSeparator)
    IN  /\ \A i \in 1..Len(r) : r[i] \in DecimalDigits
        /\ Len(r) >= 13 /\ Len(r) <= 19
        /\ LuhnSum(r, 1) % 10 = 0

\* C1: is_credit_card(value) is true iff the string form without whitespace
\* and hyphens is all digits, 13 to 19 long, with a Luhn sum divisible by 10;
\* in every other case it is false.
C1_CreditCardContract ==
    called = "is_credit_card" => result = PyBool(CardNumberValid(str(value)))

\* The same contract wherever is_credit_card returns at all
C1_CreditCardWhenReturning ==
    called = "is_credit_card" /\ result.kind = "return"
        => result = PyBool(CardNumberValid(str(value)))

FormatPredicates ==
    {"is_phone", "is_credit_card", "is_strong_password", "is_uuid", "has_extension"}

\* C2: no format predicate raises, whatever the value and the parameters:
\* every call returns.
C2_FormatPredicatesNeverRaise ==
    called \in FormatPredicates => result.kind = "return"

\* C3: is_integer and is_float return true when the conversion completes and
\* false when it fails; the error of the conversion never reaches the caller.
C3_CanConvertNeverPropagates ==
    called \in {"is_integer", "is_float"} =>
        LET conversion == Convert(IF called = "is_integer" THEN "int" ELSE "float", value)
        IN  /\ result.kind = "return"
            /\ IsTrue <=> conversion.kind = "return"

NonNumericString(v) ==
    v.kind = "str" /\ \A i \in 1..Len(v.s) : v.s[i] \notin DecimalDigits

ConversionChanges(v) == v.kind = "float" /\ 10 * IntOfFloat(v.tenths) # v.tenths

\* C4: is_integer is false for every non-numeric string and for every value
\* that the conversion to an integer would change, such as a number with a
\* non-zero fractional part.
C4_IsIntegerLossless ==
    called = "is_integer" /\ (NonNumericString(value) \/ ConversionChanges(value)) => IsFalse

SameIgnoringCase(a, b) ==
    \/ a = b
    \/ \E i \in 1..Len(LowerSeq) : {a, b} = {LowerSeq[i], UpperSeq[i]}

HexDigit(c) == \E h \in AsciiDigits \cup LowerHex : SameIgnoringCase(c, h)

CanonicalUuid(s) ==
    /\ Len(s) = 36
    /\ \A i \in 1..36 :
          IF i \in {9, 14, 19, 24} THEN s[i] = "-"
          ELSE IF i = 15 THEN s[i] \in {"1", "2", "3", "4", "5"}
          ELSE IF i = 20 THEN \E h \in {"8", "9", "a", "b"} : SameIgnoringCase(s[i], h)
          ELSE HexDigit(s[i])

\* C5: is_uuid(value) is true iff the whole string form is the 8-4-4-4-12
\* layout, ignoring case, with version 1..5 and variant 8, 9, a or b; extra
\* characters before or after it, a trailing line break included, give false.
C5_UuidFullMatch ==
    called = "is_uuid" => result = PyBool(CanonicalUuid(str(value)))

StrongPassword(s, n) ==
    /\ Len(s) >= n
    /\ \E i \in 1..Len(s) : s[i] \in UpperLetters
    /\ \E i \in 1..Len(s) : s[i] \in LowerLetters
    /\ \E i \in 1..Len(s) : s[i] \in DecimalDigits
    /\ \E i \in 1..Len(s) : s[i] \in Punctuation

\* C6: is_strong_password returns the boolean true when the string form is
\* long enough and holds an uppercase letter, a lowercase letter, a digit and
\* a symbol, and the boolean false otherwise.
C6_StrongPasswordBoolean ==
    called = "is_strong_password" /\ param.kind \in {"absent", "int"} =>
        result = PyBool(StrongPassword(str(value), IF param = Absent THEN 8 ELSE param.n))

ListPredicates == {"all_in_list", "any_in_list", "none_in_list"}

ElementSet(x) == {Elements(x)[i] : i \in 1..Len(Elements(x))}

Member(v, lst) == \E m \in ElementSet(lst) : PyEq(m, v)

\* C7: with a list as second argument the three predicates say whether all,
\* some, or none of the elements of values are members of it; with anything
\* else as second argument all three return false, whatever values is.
C7_ListPredicates ==
    called \in ListPredicates =>
        IF param.kind = "list"
        THEN Iterable(value) =>
               /\ called = "all_in_list" => result = PyBool(\A v \in ElementSet(value) : Member(v, param))
               /\ called = "any_in_list" => result = PyBool(\E v \in ElementSet(value) : Member(v, param))
               /\ called = "none_in_list" => result = PyBool(\A v \in ElementSet(value) : ~Member(v, param))
        ELSE IsFalse

C7_Witness ==
    /\ called = "all_in_list"
    /\ value = PyList(<<PyInt(1), PyInt(2)>>)
    /\ param = PyList(<<PyInt(1), PyInt(2), PyInt(3)>>)
    /\ IsTrue

\* the candidates: the one string, or the strings of the sequence
CandidateExtensions(extensions) ==
    IF extensions.kind = "str" THEN {extensions.s}
    ELSE {extensions.items[i].s : i \in 1..Len(extensions.items)}

ExtensionsAreStrings(extensions) ==
    \/ extensions.kind = "str"
    \/ /\ extensions.kind \in {"list", "tuple"}
       /\ \A i \in 1..Len(extensions.items) : extensions.items[i].kind = "str"

EndsWithIgnoringCase(s, suffix) ==
    /\ Len(suffix) <= Len(s)
    /\ \A i \in 1..Len(suffix) : SameIgnoringCase(s[Len(s) - Len(suffix) + i], suffix[i])

\* C8: has_extension takes one extension string or a sequence of them and is
\* true iff the string form of value ends, ignoring case, with "." and one of
\* the candidates; a single string is one candidate, not its characters.
C8_HasExtension ==
    called = "has_extension" /\ ExtensionsAreStrings(param) =>
        result = PyBool(\E ext \in CandidateExtensions(param) :
                            EndsWithIgnoringCase(str(value), <<".">> \o ext))

C8_Witness ==
    /\ called = "has_extension"
    /\ value = PyStr(<<"r", ".", "P", "D", "F">>)
    /\ param = PyStr(<<"p", "d", "f">>)
    /\ IsTrue

NotPhoneSeparator(c) == c \notin Whitespace \cup {"-", "(", ")"}

PhoneNumberValid(s) ==
    LET r == SelectSeq(s, NotPhoneSeparator)
        digits == IF r # <<>> /\ Head(r) = "+" THEN Tail(r) ELSE r
    IN  /\ Len(digits) >= 1 /\ Len(digits) <= 16
        /\ digits[1] \in NonZeroDigits
        /\ \A i \in 2..Len(digits) : digits[i] \in DecimalDigits

\* C9: is_phone(value) is true iff the string form without whitespace,
\* hyphens and parentheses is an optional "+", a digit 1..9 and at most 15
\* more digits; 17 or more digits, a leading 0 or any other character give
\* false.
C9_Phone ==
    called = "is_phone" => result = PyBool(PhoneNumberValid(str(value)))

C9_Witness ==
    /\ called = "is_phone"
    /\ value = PyStr(<<"+", "1">> \o Repeat("5", 15) \o <<"\n">>)
    /\ IsTrue

====
